---------------------------- MODULE Spec2Model ----------------------------
(***************************************************************************)
(* State-machine model of the interactive list-selection engine of         *)
(* generate-turso-db.py: interactive_deletion (the lazy selector, which    *)
(* hydrates the rendered page through load_database_details_batch) and     *)
(* delete_empty_databases_interactive (the selector over empty databases,  *)
(* preceded by its auto-confirm / menu flow).                              *)
(*                                                                         *)
(* Items are identified by their index in the name-sorted list; the        *)
(* "name" field of an item holds that index.                               *)
(***************************************************************************)
EXTENDS Integers, Sequences, FiniteSets, TLC

(* Bounds of the model. *)
\* largest number of databases the listing returns
MaxN == 3
\* page sizes 1..MaxPageSize are explored (the script fixes page_size = 25)
MaxPageSize == 3
\* size of the thread pool (the script uses max_workers = 10), scaled so that
\* a page can hold more unloaded items than the pool has workers
max_workers == 2
\* largest number of databases in the runs of the selector that only browse
MaxBrowseN == 5

VARIABLES
    fn,               \* "lazy": interactive_deletion; "empty": delete_empty_databases_interactive
    auto_confirm,     \* parameters of delete_empty_databases_interactive
    delete_all,
    n,                \* len(databases)
    page_size,
    total_pages,
    databases,        \* [0..n-1 -> item record]
    current_index,
    current_page,
    pc,               \* position of the main thread
    term,             \* terminal attributes of stdin: "orig" or "raw"
    old_settings,     \* "unset" until termios.tcgetattr saved them
    raw_acquired,     \* history: tty.setraw has been called in this run
    confirm,          \* the stripped line last read at a confirmation prompt
    selected_dbs,     \* the list built when Enter was pressed (or all items, in the bulk flows)
    exec_pos,         \* position in selected_dbs of the next delete_database call
    all_successful,   \* interactive_deletion's result flag
    success_count,    \* delete_empty_databases_interactive's counters
    failure_count,
    failed_databases,
    destroy_log,      \* history: every delete_database call with what it did
    printed,          \* history: the result lines delete_database has printed
    work_queue,       \* ThreadPoolExecutor: submitted work items not yet taken by a worker
    running,          \* items whose fetch_db_details is executing in a worker thread
    futures,          \* the items submitted by the call in progress (the keys of its futures)
    issued,           \* the items of the call in progress whose "turso db show" was started
    hydr_ret,         \* who called load_database_details_batch: "prefetch" or "display"
    interrupted,      \* a KeyboardInterrupt is pending in the main thread while it joins the pool
    fetched,          \* history: items for which "turso db show" was issued
    exit_kind,        \* "running", or how the function ended
    char,             \* the key the loop iteration in progress read, "none" between iterations
    choice,           \* the stripped answer to the menu of the empty-database flow, as
                      \* one of MenuChoices, until the next display_page; "none" otherwise
    next_char,        \* the byte it read after an escape byte, or "none"
    arrow,            \* the third byte of the escape sequence it read, or "none"
    typed_line        \* the line the last input() of a confirmation prompt returned, before
                      \* .strip(), until the main thread's next step; NoLine otherwise

vars == << fn, auto_confirm, delete_all, n, page_size, total_pages, databases,
           current_index, current_page, pc, term, old_settings, raw_acquired,
           confirm, selected_dbs, exec_pos, all_successful, success_count,
           failure_count, failed_databases, destroy_log, work_queue, running,
           futures, issued, hydr_ret, interrupted, fetched, exit_kind, char, arrow,
           typed_line, next_char, printed, choice >>

\* The variables grouped by the component that owns them.
paramVars == << fn, auto_confirm, delete_all, n, page_size, total_pages >>
cursorVars == << current_index, current_page >>
termVars == << term, old_settings, raw_acquired >>
execVars == << selected_dbs, exec_pos, all_successful, success_count,
               failure_count, failed_databases, destroy_log, printed >>
poolVars == << work_queue, running, futures, issued, hydr_ret, interrupted, fetched >>
keyVars == << char, next_char, arrow, choice, typed_line >>

\* the value of typed_line when no confirmation line was just read
NoLine == << "none" >>

-----------------------------------------------------------------------------
(* Pure helpers. *)

Min(a, b) == IF a < b THEN a ELSE b

\* math.ceil(len(databases) / page_size)
CeilDiv(a, b) == (a + b - 1) \div b

Indices == 0 .. (n - 1)

\* [i for i in range(lo, hi)] as a sequence
RECURSIVE RangeSeq(_, _)
RangeSeq(lo, hi) == IF lo >= hi THEN << >> ELSE << lo >> \o RangeSeq(lo + 1, hi)

\* the subsequence of s whose elements satisfy the set membership in S, order kept
RECURSIVE FilterSeq(_, _)
FilterSeq(s, S) ==
    IF s = << >> THEN << >>
    ELSE (IF Head(s) \in S THEN << Head(s) >> ELSE << >>) \o FilterSeq(Tail(s), S)

SeqToSet(s) == { s[k] : k \in 1 .. Len(s) }

\* every ordering of the finite set S
Orderings(S) ==
    { q \in [1 .. Cardinality(S) -> S] : \A a, b \in 1 .. Cardinality(S) : a # b => q[a] # q[b] }

-----------------------------------------------------------------------------
(* Items. *)

\* The group of database i on the server.  "turso db list" (its GROUP column)
\* and "turso db show" (its Group: line) both report it.
GroupOf(i) == "default"

\* the record fetch_all_database_details appends for a listed database
NewItem(i) ==
    [ name |-> i, selected |-> FALSE, group |-> GroupOf(i),
      size |-> "Loading...", details_loaded |-> FALSE ]

\* an item find_empty_databases keeps: details loaded, size matched and zero
EmptyItem(i) ==
    [ name |-> i, selected |-> FALSE, group |-> GroupOf(i),
      size |-> "Sz", details_loaded |-> TRUE ]


-----------------------------------------------------------------------------
(* The initial state: the function is entered with the listing it works on.  *)
(* For interactive_deletion that is the parsed output of "turso db list"     *)
(* (no detail loaded yet), indexed here in the order databases.sort gives    *)
(* it; for delete_empty_databases_interactive it is the list returned by     *)
(* find_empty_databases.  main passes delete_all only with auto_confirm.     *)

InitUpTo(max_n) ==
    /\ fn \in { "lazy", "empty" }
    /\ auto_confirm \in BOOLEAN
    /\ delete_all \in BOOLEAN
    /\ (fn = "lazy") => (~auto_confirm /\ ~delete_all)
    /\ delete_all => auto_confirm
    /\ n \in 0 .. max_n
    /\ page_size \in 1 .. MaxPageSize
    /\ databases = [ i \in 0 .. (n - 1) |-> IF fn = "lazy" THEN NewItem(i) ELSE EmptyItem(i) ]
    /\ total_pages = 0
    /\ current_index = 0
    /\ current_page = 0
    /\ pc = "start"
    /\ term = "orig"
    /\ old_settings = "unset"
    /\ raw_acquired = FALSE
    /\ confirm = << >>
    /\ selected_dbs = << >>
    /\ exec_pos = 1
    /\ all_successful = TRUE
    /\ success_count = 0
    /\ failure_count = 0
    /\ failed_databases = << >>
    /\ destroy_log = << >>
    /\ printed = << >>
    /\ work_queue = << >>
    /\ running = {}
    /\ futures = {}
    /\ issued = {}
    /\ hydr_ret = "none"
    /\ interrupted = FALSE
    /\ fetched = {}
    /\ exit_kind = "running"
    /\ char = "none"
    /\ next_char = "none"
    /\ choice = "none"
    /\ arrow = "none"
    /\ typed_line = NoLine

Init == InitUpTo(MaxN)

-----------------------------------------------------------------------------
(* Leaving the function. *)

\* the function returns or propagates without having entered its try block
LeaveOutsideTry(kind) ==
    /\ pc' = "returned"
    /\ exit_kind' = kind
    /\ UNCHANGED termVars

\* mutant of FinallyTerm: the finally clause does not restore the terminal
FinallyTermKept == term

\* the attributes the finally clause leaves on the terminal:
\* termios.tcsetattr(sys.stdin, termios.TCSADRAIN, old_settings)
FinallyTerm == old_settings

\* what the try statement does with an exception raised in its body:
\* KeyboardInterrupt is caught and reported, anything else propagates
AfterExcept(exc) == IF exc = "KeyboardInterrupt" THEN "cancelled" ELSE exc

\* the try block is left (break, or an exception): except, then finally
LeaveTry(kind) ==
    /\ pc' = "returned"
    /\ exit_kind' = AfterExcept(kind)
    /\ term' = FinallyTerm
    /\ UNCHANGED << old_settings, raw_acquired >>

-----------------------------------------------------------------------------
(* load_database_details_batch: the detail hydration service. *)

\* What run_command("turso db show <name>") can do: raise (subprocess.run's
\* timeout), or return an exit code and an output in which the Size and the
\* Group patterns are found or not.
FetchOutcomes ==
    { [ kind |-> "raise", code |-> 1, size_match |-> FALSE, group_match |-> FALSE ],
      [ kind |-> "return", code |-> 1, size_match |-> FALSE, group_match |-> FALSE ] }
    \cup { [ kind |-> "return", code |-> 0, size_match |-> sm, group_match |-> gm ] :
             sm \in BOOLEAN, gm \in BOOLEAN }

\* mutant of FetchWrite: the worker also writes a name, that of the first item
FetchWriteRenames(db, out) ==
    IF out.kind = "raise" THEN db
    ELSE IF out.code = 0
    THEN [ db EXCEPT !.name = 0,
                     !.group = IF out.group_match THEN GroupOf(db.name) ELSE db.group,
                     !.size = IF out.size_match THEN "Sz" ELSE "Unknown",
                     !.details_loaded = TRUE ]
    ELSE [ db EXCEPT !.size = "Error", !.details_loaded = TRUE ]

\* mutant of FetchWrite: the worker rebuilds the item, losing its selection
FetchWriteResetsItem(db, out) ==
    IF out.kind = "raise" THEN db
    ELSE [ db EXCEPT !.selected = FALSE,
                     !.size = IF out.code = 0 /\ out.size_match THEN "Sz" ELSE "Error",
                     !.details_loaded = TRUE ]

\* The item as fetch_db_details leaves it when run_command ended with `out`.
\* An exception of run_command leaves fetch_db_details before any assignment
\* (it is stored in the future, whose result nobody reads).
FetchWrite(db, out) ==
    IF out.kind = "raise" THEN db
    ELSE IF out.code = 0
    THEN [ db EXCEPT !.group = IF out.group_match THEN GroupOf(db.name) ELSE db.group,
                     !.size = IF out.size_match THEN "Sz" ELSE "Unknown",
                     !.details_loaded = TRUE ]
    ELSE [ db EXCEPT !.size = "Error", !.details_loaded = TRUE ]

\* unloaded = [db for db in batch if not db.get("details_loaded", False)]
Unloaded(batch) == FilterSeq(batch, { i \in Indices : ~databases[i].details_loaded })

\* mutant of WorkerAvailable: one thread per submitted item, without a cap
WorkerAlwaysAvailable == TRUE

\* the executor starts a work item only while fewer than max_workers threads are busy
WorkerAvailable == Cardinality(running) < max_workers

\* The code after load_database_details_batch returned to its caller `ret`.
\* From fetch_all_database_details: interactive_deletion sorts, sets up the
\* pagination state, saves the terminal attributes and enters raw mode.
\* From display_page: the page is drawn and the loop reads a key.
ReturnFromBatch(ret) ==
    IF ret = "prefetch"
    THEN /\ pc' = "display"
         /\ total_pages' = CeilDiv(n, page_size)
         /\ current_page' = 0
         /\ current_index' = 0
         /\ old_settings' = term
         /\ term' = "raw"
         /\ raw_acquired' = TRUE
         /\ UNCHANGED exit_kind
    ELSE /\ pc' = "read"
         /\ UNCHANGED << total_pages, cursorVars, termVars, exit_kind >>

\* load_database_details_batch(db_list, ...) over the items `batch`, called by `ret`
CallBatch(batch, ret) ==
    IF Unloaded(batch) = << >>
    THEN /\ ReturnFromBatch(ret)
         /\ UNCHANGED << databases, poolVars >>
    ELSE /\ pc' = "hydrating"
         /\ work_queue' = Unloaded(batch)
         /\ futures' = SeqToSet(Unloaded(batch))
         /\ hydr_ret' = ret
         /\ UNCHANGED << databases, running, issued, interrupted, fetched,
                         total_pages, cursorVars, termVars, exit_kind >>

\* A pool thread takes the next work item and runs fetch_db_details on it up
\* to the run_command call.
WorkerStart ==
    /\ pc = "hydrating"
    /\ work_queue # << >>
    /\ WorkerAvailable
    /\ LET i == Head(work_queue) IN
         /\ work_queue' = Tail(work_queue)
         /\ IF databases[i].details_loaded
            THEN UNCHANGED << running, issued, fetched >>
            ELSE /\ running' = running \cup { i }
                 /\ issued' = issued \cup { i }
                 /\ fetched' = fetched \cup { i }
    /\ UNCHANGED << paramVars, databases, cursorVars, pc, termVars, confirm, execVars,
                    futures, hydr_ret, interrupted, exit_kind, keyVars >>

\* run_command ends for item i and fetch_db_details runs to its end.
WorkerFinish ==
    /\ pc = "hydrating"
    /\ \E i \in running, out \in FetchOutcomes :
         /\ databases' = [ databases EXCEPT ![i] = FetchWrite(databases[i], out) ]
         /\ running' = running \ { i }
    /\ UNCHANGED << paramVars, cursorVars, pc, termVars, confirm, execVars,
                    work_queue, futures, issued, hydr_ret, interrupted, fetched, exit_kind,
                    keyVars >>

\* SIGINT reaches the main thread while it waits in as_completed: the
\* KeyboardInterrupt leaves the with block, whose exit joins the pool first.
HydrationInterrupt ==
    /\ pc = "hydrating"
    /\ ~interrupted
    /\ interrupted' = TRUE
    /\ UNCHANGED << paramVars, databases, cursorVars, pc, termVars, confirm, execVars,
                    work_queue, running, futures, issued, hydr_ret, fetched, exit_kind,
                    keyVars >>

\* mutant of PoolJoined: the call returns as soon as every work item was taken
PoolJoinedEarly == work_queue = << >>

\* the as_completed loop is over and the with block's shutdown(wait=True) has
\* returned: no work item is queued or running
PoolJoined == work_queue = << >> /\ running = {}

\* Every future is done and the pool is shut down: the call returns, or the
\* pending KeyboardInterrupt propagates to the caller.
BatchJoin ==
    /\ pc = "hydrating"
    /\ PoolJoined
    /\ interrupted' = FALSE
    /\ hydr_ret' = "none"
    /\ futures' = {}
    /\ issued' = {}
    /\ IF interrupted
       THEN /\ IF hydr_ret = "prefetch"
               THEN LeaveOutsideTry("KeyboardInterrupt")
               ELSE LeaveTry("KeyboardInterrupt")
            /\ UNCHANGED << total_pages, cursorVars >>
       ELSE ReturnFromBatch(hydr_ret)
    /\ UNCHANGED << fn, auto_confirm, delete_all, n, page_size, databases, confirm,
                    execVars, work_queue, running, fetched, keyVars >>

-----------------------------------------------------------------------------
(* Typed lines and the confirmation tokens. *)

DeleteToken == << "D", "E", "L", "E", "T", "E" >>
DeleteAllToken == DeleteToken \o << " ", "A", "L", "L" >>

\* lines the operator may type at an input() prompt, as character sequences
TypedLines ==
    { DeleteToken,
      << " " >> \o DeleteToken \o << " " >>,
      << "d", "e", "l", "e", "t", "e" >>,
      << "y" >>,
      << >>,
      DeleteToken \o << "X" >>,
      DeleteAllToken,
      << " " >> \o DeleteAllToken }

RECURSIVE LStrip(_)
LStrip(s) == IF s # << >> /\ Head(s) = " " THEN LStrip(Tail(s)) ELSE s

RECURSIVE RStrip(_)
RStrip(s) == IF s # << >> /\ s[Len(s)] = " " THEN RStrip(SubSeq(s, 1, Len(s) - 1)) ELSE s

\* str.strip()
Strip(s) == RStrip(LStrip(s))

\* mutant of ConfirmsDelete: the comparison ignores the letter case
ConfirmsDeleteAnyCase(line) == line = DeleteToken \/ line = << "d", "e", "l", "e", "t", "e" >>

\* mutant of ConfirmsDelete: a single 'y' is accepted as well
ConfirmsDeleteOrYes(line) == line = DeleteToken \/ line = << "y" >>

\* if confirm == 'DELETE'
ConfirmsDelete(line) == line = DeleteToken

\* mutant of ConfirmsDeleteAll: the token of the selector's prompt is
\* accepted as well
ConfirmsDeleteAllOrDelete(line) == line = DeleteAllToken \/ line = DeleteToken

\* if confirm == 'DELETE ALL'
ConfirmsDeleteAll(line) == line = DeleteAllToken

-----------------------------------------------------------------------------
(* delete_database and the bookkeeping of the deletion loops. *)

\* What run_command("turso db destroy <name> --yes", timeout=60) can do inside
\* delete_database: raise TimeoutExpired, be interrupted (Ctrl-C while the
\* terminal is in its original mode), or return an exit code and an output
\* that holds the "Destroyed database" message or not.
DestroyOutcomes ==
    { [ kind |-> "TimeoutExpired", code |-> 1, msg |-> FALSE ],
      [ kind |-> "KeyboardInterrupt", code |-> 1, msg |-> FALSE ] }
    \cup { [ kind |-> "return", code |-> c, msg |-> m ] : c \in { 0, 1 }, m \in BOOLEAN }

\* delete_database's return value when run_command returned
DeleteDatabase(out) == out.code = 0 /\ out.msg

\* the entry the call leaves in the history of destroy calls
LogEntry(i, out) ==
    [ db |-> i,
      res |-> IF out.kind = "return"
              THEN (IF DeleteDatabase(out) THEN "ok" ELSE "failed")
              ELSE out.kind ]

\* print_success("Successfully deleted database ...") or
\* print_error("Failed to delete database ...") before delete_database returns
ResultLine(i, out) ==
    [ db |-> i, line |-> IF DeleteDatabase(out) THEN "Successfully deleted" ELSE "Failed to delete" ]

\* mutant of PrintedAfter: a failed deletion prints no result line
PrintedAfterSilentFailure(p, i, out) ==
    IF out.kind = "return" /\ DeleteDatabase(out) THEN Append(p, ResultLine(i, out)) ELSE p

\* what delete_database has printed after a call: nothing more when
\* run_command raised
PrintedAfter(p, i, out) == IF out.kind = "return" THEN Append(p, ResultLine(i, out)) ELSE p

\* interactive_deletion: if not delete_database(...): all_successful = False
AllSuccessfulAfter(flag, ok) == flag /\ ok

\* mutant of FailedDatabasesAfter: a failed name is not recorded
FailedDatabasesAfterDropped(f, i, ok) == f

\* the counting loops: success_count / failure_count / failed_databases
SuccessCountAfter(c, ok) == IF ok THEN c + 1 ELSE c
FailureCountAfter(c, ok) == IF ok THEN c ELSE c + 1
FailedDatabasesAfter(f, i, ok) == IF ok THEN f ELSE Append(f, i)

\* One iteration of a deletion loop over selected_dbs.  An exception of
\* delete_database leaves the function, through the except and finally
\* clauses when the loop is inside the try block (`inTry`).
DestroyStep(inTry) ==
    /\ exec_pos <= Len(selected_dbs)
    /\ \E out \in DestroyOutcomes :
         LET i == selected_dbs[exec_pos] IN
         /\ destroy_log' = Append(destroy_log, LogEntry(i, out))
         /\ printed' = PrintedAfter(printed, i, out)
         /\ IF out.kind = "return"
            THEN /\ exec_pos' = exec_pos + 1
                 /\ IF fn = "lazy"
                    THEN /\ all_successful' = AllSuccessfulAfter(all_successful, DeleteDatabase(out))
                         /\ UNCHANGED << success_count, failure_count, failed_databases >>
                    ELSE /\ success_count' = SuccessCountAfter(success_count, DeleteDatabase(out))
                         /\ failure_count' = FailureCountAfter(failure_count, DeleteDatabase(out))
                         /\ failed_databases' =
                                FailedDatabasesAfter(failed_databases, i, DeleteDatabase(out))
                         /\ UNCHANGED all_successful
                 /\ UNCHANGED << pc, termVars, exit_kind >>
            ELSE /\ IF inTry THEN LeaveTry(out.kind) ELSE LeaveOutsideTry(out.kind)
                 /\ UNCHANGED << exec_pos, all_successful, success_count, failure_count,
                                 failed_databases >>
    /\ typed_line' = NoLine
    /\ UNCHANGED << paramVars, databases, cursorVars, confirm, selected_dbs, poolVars,
                    char, next_char, arrow, choice >>

-----------------------------------------------------------------------------
(* Entering the functions. *)

\* mutant of NoDatabases: an empty list is not told apart
NoDatabasesNever == FALSE

\* if not databases: (print_warning and return)
NoDatabases == n = 0

\* interactive_deletion up to the hydration of the first page_size listed
\* databases (fetch_all_database_details(lazy=True)).  The listing order is
\* not the sorted order, so the items of that first batch are any page_size
\* of the sorted list, submitted in any order.
BeginLazy ==
    /\ pc = "start"
    /\ fn = "lazy"
    /\ IF NoDatabases
       THEN /\ LeaveOutsideTry("returned")
            /\ UNCHANGED << total_pages, databases, cursorVars, poolVars >>
       ELSE /\ \E first \in SUBSET Indices :
                 /\ Cardinality(first) = Min(page_size, n)
                 /\ \E batch \in Orderings(first) : CallBatch(batch, "prefetch")
    /\ UNCHANGED << fn, auto_confirm, delete_all, n, page_size, confirm, execVars, keyVars >>

\* delete_empty_databases_interactive from the selection reset to the first
\* display_page: for db in databases: db["selected"] = False; the pagination
\* state; old_settings = termios.tcgetattr(...); tty.setraw(...)
EnterEmptySelector ==
    /\ databases' = [ i \in Indices |-> [ databases[i] EXCEPT !.selected = FALSE ] ]
    /\ total_pages' = CeilDiv(n, page_size)
    /\ current_page' = 0
    /\ current_index' = 0
    /\ old_settings' = term
    /\ term' = "raw"
    /\ raw_acquired' = TRUE
    /\ pc' = "display"
    /\ UNCHANGED exit_kind

\* the start of a deletion loop over `dbs`
StartLoop(dbs) ==
    /\ selected_dbs' = dbs
    /\ exec_pos' = 1
    /\ all_successful' = TRUE
    /\ success_count' = 0
    /\ failure_count' = 0
    /\ failed_databases' = << >>
    /\ UNCHANGED << destroy_log, printed >>

\* delete_empty_databases_interactive up to its first prompt, deletion or
\* display_page
BeginEmpty ==
    /\ pc = "start"
    /\ fn = "empty"
    /\ IF NoDatabases
       THEN /\ LeaveOutsideTry("returned")
            /\ UNCHANGED << total_pages, databases, cursorVars, execVars >>
       ELSE IF auto_confirm /\ delete_all
       THEN /\ pc' = "bulk_exec"
            /\ StartLoop(RangeSeq(0, n))
            /\ UNCHANGED << total_pages, databases, cursorVars, termVars, exit_kind >>
       ELSE IF ~auto_confirm /\ n > 1
       THEN /\ pc' = "menu"
            /\ UNCHANGED << total_pages, databases, cursorVars, termVars, exit_kind, execVars >>
       ELSE /\ EnterEmptySelector
            /\ UNCHANGED execVars
    /\ UNCHANGED << fn, auto_confirm, delete_all, n, page_size, confirm, poolVars, keyVars >>

\* what an input() call can do besides returning a line
InputErrors == { "KeyboardInterrupt", "EOFError" }

\* the stripped answers to the menu: '1', '2', '3' and any other line
MenuChoices == { "1", "2", "3", "other" }

\* choice = input("Enter your choice (1-3): ").strip()
Menu ==
    /\ pc = "menu"
    /\ \/ \E answer \in MenuChoices :
            /\ choice' = answer
            /\ IF answer = "1"
               THEN /\ pc' = "bulk_confirm"
                    /\ UNCHANGED << total_pages, databases, cursorVars, termVars, exit_kind >>
               ELSE IF answer = "3"
               THEN /\ LeaveOutsideTry("returned")
                    /\ UNCHANGED << total_pages, databases, cursorVars >>
               ELSE EnterEmptySelector
       \/ \E e \in InputErrors :
            /\ LeaveOutsideTry(e)
            /\ UNCHANGED << total_pages, databases, cursorVars, choice >>
    /\ UNCHANGED << fn, auto_confirm, delete_all, n, page_size, confirm, execVars, poolVars,
                    char, next_char, arrow, typed_line >>

\* confirm = input("Type 'DELETE ALL' to confirm ...").strip()
BulkConfirm ==
    /\ pc = "bulk_confirm"
    /\ \/ \E line \in TypedLines :
            /\ confirm' = Strip(line)
            /\ IF ConfirmsDeleteAll(Strip(line))
               THEN /\ pc' = "bulk_exec"
                    /\ StartLoop(RangeSeq(0, n))
                    /\ typed_line' = line
                    /\ UNCHANGED << termVars, exit_kind >>
               ELSE /\ LeaveOutsideTry("returned")
                    /\ typed_line' = line
                    /\ UNCHANGED execVars
       \/ \E e \in InputErrors :
            /\ LeaveOutsideTry(e)
            /\ UNCHANGED << confirm, execVars, typed_line >>
    /\ UNCHANGED << paramVars, databases, cursorVars, poolVars, char, next_char, arrow, choice >>

\* for db in databases: if delete_database(db['name']): ... (both bulk loops)
BulkDestroy ==
    /\ pc = "bulk_exec"
    /\ DestroyStep(FALSE)

\* the summary after a bulk loop; the auto-confirm flow returns, the menu flow
\* waits for Enter first
BulkReport ==
    /\ pc = "bulk_exec"
    /\ exec_pos > Len(selected_dbs)
    /\ IF auto_confirm /\ delete_all
       THEN LeaveOutsideTry("returned")
       ELSE /\ pc' = "bulk_exit_prompt"
            /\ UNCHANGED << termVars, exit_kind >>
    /\ typed_line' = NoLine
    /\ UNCHANGED << paramVars, databases, cursorVars, confirm, execVars, poolVars, char,
                    next_char, arrow, choice >>

\* input("Press Enter to exit...") and return
BulkExitPrompt ==
    /\ pc = "bulk_exit_prompt"
    /\ \/ LeaveOutsideTry("returned")
       \/ \E e \in InputErrors : LeaveOutsideTry(e)
    /\ UNCHANGED << paramVars, databases, cursorVars, confirm, execVars, poolVars, keyVars >>

-----------------------------------------------------------------------------
(* The selector loop shared by both functions: pagination, selection, the   *)
(* escape-sequence decoder, the confirmation prompt and the deletion loop.  *)

\* one unit returned by sys.stdin.read(1); "EOF" is the empty string read at
\* end of input, "x" any key the loop does not know
Chars ==
    { "ESC", "[", "SP", "j", "J", "k", "K", "n", "N", "p", "P", "a", "A", "d", "D",
      "B", "CR", "LF", "q", "Q", "ETX", "EOF", "x" }

\* the bytes that may follow escape and '[': the up, down and right arrows end
\* with A, B and C; Ctrl-C and the end of input may come instead
ArrowBytes == { "A", "B", "C", "ETX", "EOF" }

\* start_idx = current_page * page_size
PageStart(page) == page * page_size

\* end_idx = min(start_idx + page_size, len(databases))
PageEnd(page) == Min(PageStart(page) + page_size, n)

\* mutant of CursorDown: the page is not advanced at a page boundary
CursorDownKeepPage(idx, page) == IF idx < n - 1 THEN << idx + 1, page >> ELSE << idx, page >>

\* j / arrow down: the cursor <<current_index, current_page>> after the key
CursorDown(idx, page) ==
    IF idx < n - 1
    THEN << idx + 1, IF idx + 1 >= (page + 1) * page_size THEN page + 1 ELSE page >>
    ELSE << idx, page >>

\* mutant of CursorUp: at the first item the cursor wraps to the last one
CursorUpWraps(idx, page) ==
    IF idx > 0
    THEN << idx - 1, IF idx - 1 < page * page_size THEN page - 1 ELSE page >>
    ELSE << n - 1, total_pages - 1 >>

\* k / arrow up
CursorUp(idx, page) ==
    IF idx > 0
    THEN << idx - 1, IF idx - 1 < page * page_size THEN page - 1 ELSE page >>
    ELSE << idx, page >>

\* n
CursorNextPage(idx, page) ==
    IF page < total_pages - 1 THEN << (page + 1) * page_size, page + 1 >> ELSE << idx, page >>

\* mutant of CursorPrevPage: the cursor goes back by one page length
CursorPrevPageSameOffset(idx, page) ==
    IF page > 0 THEN << idx - page_size, page - 1 >> ELSE << idx, page >>

\* p
CursorPrevPage(idx, page) ==
    IF page > 0 THEN << (page - 1) * page_size, page - 1 >> ELSE << idx, page >>

\* delete_empty_databases_interactive: the branches of the cursor keys test
\* the key alone, the bound is tested inside the branch
CursorEmpty(key, idx, page) ==
    IF key \in { "j", "J" } THEN CursorDown(idx, page)
    ELSE IF key \in { "k", "K" } THEN CursorUp(idx, page)
    ELSE IF key \in { "n", "N" } THEN CursorNextPage(idx, page)
    ELSE IF key \in { "p", "P" } THEN CursorPrevPage(idx, page)
    ELSE << idx, page >>

\* mutant of CursorLazy: the branch of k is taken above the second item only
CursorLazyStrictGuard(key, idx, page) ==
    IF key \in { "j", "J" } /\ idx < n - 1
    THEN << idx + 1, IF idx + 1 >= (page + 1) * page_size THEN page + 1 ELSE page >>
    ELSE IF key \in { "k", "K" } /\ idx > 1
    THEN << idx - 1, IF idx - 1 < page * page_size THEN page - 1 ELSE page >>
    ELSE IF key \in { "n", "N" } /\ page < total_pages - 1
    THEN << (page + 1) * page_size, page + 1 >>
    ELSE IF key \in { "p", "P" } /\ page > 0
    THEN << (page - 1) * page_size, page - 1 >>
    ELSE << idx, page >>

\* interactive_deletion: the bound is part of the elif condition, and a key
\* whose bound fails goes on down the chain, where no later condition holds
\* for it
CursorLazy(key, idx, page) ==
    IF key \in { "j", "J" } /\ idx < n - 1
    THEN << idx + 1, IF idx + 1 >= (page + 1) * page_size THEN page + 1 ELSE page >>
    ELSE IF key \in { "k", "K" } /\ idx > 0
    THEN << idx - 1, IF idx - 1 < page * page_size THEN page - 1 ELSE page >>
    ELSE IF key \in { "n", "N" } /\ page < total_pages - 1
    THEN << (page + 1) * page_size, page + 1 >>
    ELSE IF key \in { "p", "P" } /\ page > 0
    THEN << (page - 1) * page_size, page - 1 >>
    ELSE << idx, page >>

\* the cursor after a cursor key, in the function that runs
KeyCursor(key, idx, page) ==
    IF fn = "lazy" THEN CursorLazy(key, idx, page) ELSE CursorEmpty(key, idx, page)

\* delete_empty_databases_interactive: if arrow == 'A': if current_index > 0
ArrowCursorEmpty(third, idx, page) ==
    IF third = "A" THEN CursorUp(idx, page)
    ELSE IF third = "B" THEN CursorDown(idx, page)
    ELSE << idx, page >>

\* interactive_deletion: if arrow == 'A' and current_index > 0: ... elif
\* arrow == 'B' and current_index < len(databases) - 1
ArrowCursorLazy(third, idx, page) ==
    IF third = "A" /\ idx > 0
    THEN << idx - 1, IF idx - 1 < page * page_size THEN page - 1 ELSE page >>
    ELSE IF third = "B" /\ idx < n - 1
    THEN << idx + 1, IF idx + 1 >= (page + 1) * page_size THEN page + 1 ELSE page >>
    ELSE << idx, page >>

\* the cursor after the third byte of an escape sequence, in the function
\* that runs
ArrowCursor(third, idx, page) ==
    IF fn = "lazy" THEN ArrowCursorLazy(third, idx, page)
    ELSE ArrowCursorEmpty(third, idx, page)

\* mutant of ToggleSelected: space selects the item instead of toggling it
ToggleSelectedSets(dbs, idx) == [ dbs EXCEPT ![idx].selected = TRUE ]

\* space: databases[current_index]["selected"] = not ...
ToggleSelected(dbs, idx) == [ dbs EXCEPT ![idx].selected = ~dbs[idx].selected ]

\* mutant of SetPageSelected: the flag is set on every item of the list
SetAllSelected(dbs, page, value) == [ i \in Indices |-> [ dbs[i] EXCEPT !.selected = value ] ]

\* a / d: for i in range(start_idx, end_idx): databases[i]["selected"] = value
SetPageSelected(dbs, page, value) ==
    [ i \in Indices |->
        IF PageStart(page) <= i /\ i < PageEnd(page)
        THEN [ dbs[i] EXCEPT !.selected = value ]
        ELSE dbs[i] ]

\* mutant of SelectedList: only the selected items of the current page
SelectedListOfPage(dbs) ==
    FilterSeq(RangeSeq(PageStart(current_page), PageEnd(current_page)),
              { i \in Indices : dbs[i].selected })

\* mutant of SelectedList: the selected items are listed last to first
SelectedListReversed(dbs) ==
    [ k \in 1 .. Cardinality({ i \in Indices : dbs[i].selected }) |->
        FilterSeq(RangeSeq(0, n), { i \in Indices : dbs[i].selected })
            [Cardinality({ i \in Indices : dbs[i].selected }) + 1 - k] ]

\* selected_dbs = [db for db in databases if db.get("selected", False)]
SelectedList(dbs) == FilterSeq(RangeSeq(0, n), { i \in Indices : dbs[i].selected })

\* mutant of OpensPrompt: Enter opens the prompt whatever the selection
OpensPromptAlways(sel) == TRUE

\* if selected_dbs:
OpensPrompt(sel) == sel # << >>

MoveCursor(c) ==
    /\ current_index' = c[1]
    /\ current_page' = c[2]

\* mutant of Display: the page of the selector over empty databases is drawn
\* from a list whose selected flags are reset
DisplayResetsSelection ==
    /\ pc = "display"
    /\ char' = "none"
    /\ next_char' = "none"
    /\ choice' = "none"
    /\ arrow' = "none"
    /\ typed_line' = NoLine
    /\ IF fn = "lazy"
       THEN CallBatch(RangeSeq(PageStart(current_page), PageEnd(current_page)), "display")
       ELSE /\ pc' = "read"
            /\ databases' = [ i \in Indices |-> [ databases[i] EXCEPT !.selected = FALSE ] ]
            /\ UNCHANGED << total_pages, cursorVars, termVars, exit_kind, poolVars >>
    /\ UNCHANGED << fn, auto_confirm, delete_all, n, page_size, confirm, execVars >>

\* display_page() at the top of a loop iteration: interactive_deletion
\* hydrates the page before drawing it, delete_empty_databases_interactive
\* only draws.  The keys of the previous iteration are over.
Display ==
    /\ pc = "display"
    /\ char' = "none"
    /\ next_char' = "none"
    /\ choice' = "none"
    /\ arrow' = "none"
    /\ typed_line' = NoLine
    /\ IF fn = "lazy"
       THEN CallBatch(RangeSeq(PageStart(current_page), PageEnd(current_page)), "display")
       ELSE /\ pc' = "read"
            /\ UNCHANGED << total_pages, databases, cursorVars, termVars, exit_kind, poolVars >>
    /\ UNCHANGED << fn, auto_confirm, delete_all, n, page_size, confirm, execVars >>

\* mutant of PromptTerm: the prompt is shown with the terminal still raw
PromptTermKept == term

\* the terminal at the confirmation prompt:
\* termios.tcsetattr(sys.stdin, termios.TCSADRAIN, old_settings)
PromptTerm == old_settings

\* char = sys.stdin.read(1), for a key of the set `keys`, and the branch of
\* the if/elif chain it takes.  When the function leaves the loop its locals
\* are gone.
ReadKeyIn(keys) ==
    /\ pc = "read"
    /\ \E key \in keys :
         CASE key = "ESC" ->
                /\ pc' = "esc"
                /\ char' = key
                /\ UNCHANGED << databases, cursorVars, termVars, exit_kind, selected_dbs >>
           [] key = "SP" ->
                /\ databases' = ToggleSelected(databases, current_index)
                /\ pc' = "display"
                /\ char' = key
                /\ UNCHANGED << cursorVars, termVars, exit_kind, selected_dbs >>
           [] key \in { "j", "J" } ->
                /\ MoveCursor(KeyCursor(key, current_index, current_page))
                /\ pc' = "display"
                /\ char' = key
                /\ UNCHANGED << databases, termVars, exit_kind, selected_dbs >>
           [] key \in { "k", "K" } ->
                /\ MoveCursor(KeyCursor(key, current_index, current_page))
                /\ pc' = "display"
                /\ char' = key
                /\ UNCHANGED << databases, termVars, exit_kind, selected_dbs >>
           [] key \in { "n", "N" } ->
                /\ MoveCursor(KeyCursor(key, current_index, current_page))
                /\ pc' = "display"
                /\ char' = key
                /\ UNCHANGED << databases, termVars, exit_kind, selected_dbs >>
           [] key \in { "p", "P" } ->
                /\ MoveCursor(KeyCursor(key, current_index, current_page))
                /\ pc' = "display"
                /\ char' = key
                /\ UNCHANGED << databases, termVars, exit_kind, selected_dbs >>
           [] key \in { "a", "A" } ->
                /\ databases' = SetPageSelected(databases, current_page, TRUE)
                /\ pc' = "display"
                /\ char' = key
                /\ UNCHANGED << cursorVars, termVars, exit_kind, selected_dbs >>
           [] key \in { "d", "D" } ->
                /\ databases' = SetPageSelected(databases, current_page, FALSE)
                /\ pc' = "display"
                /\ char' = key
                /\ UNCHANGED << cursorVars, termVars, exit_kind, selected_dbs >>
           [] key \in { "CR", "LF" } ->
                /\ selected_dbs' = SelectedList(databases)
                /\ char' = key
                /\ IF OpensPrompt(SelectedList(databases))
                   THEN /\ term' = PromptTerm
                        /\ pc' = "confirm"
                   ELSE /\ pc' = "display"
                        /\ UNCHANGED term
                /\ UNCHANGED << databases, cursorVars, old_settings, raw_acquired, exit_kind >>
           [] key \in { "q", "Q" } ->
                /\ LeaveTry("quit")
                /\ char' = key
                /\ UNCHANGED << databases, cursorVars, selected_dbs >>
           [] key = "ETX" ->
                /\ LeaveTry("KeyboardInterrupt")
                /\ char' = key
                /\ UNCHANGED << databases, cursorVars, selected_dbs >>
           [] OTHER ->
                /\ pc' = "display"
                /\ char' = key
                /\ UNCHANGED << databases, cursorVars, termVars, exit_kind, selected_dbs >>
    /\ UNCHANGED << paramVars, confirm, exec_pos, all_successful, success_count,
                    failure_count, failed_databases, destroy_log, printed, poolVars,
                    next_char, arrow, choice, typed_line >>

\* any key is read
ReadKey == ReadKeyIn(Chars)

\* the keys that move the cursor or do nothing
NavChars == { "j", "k", "n", "p", "x" }

\* a navigation key is read
ReadNavKey == ReadKeyIn(NavChars)

\* the bytes that may follow an escape byte: '[', Ctrl-C, the end of input,
\* or any other byte ("x")
EscapeBytes == { "[", "ETX", "EOF", "x" }

\* mutant of OpensSequence: any byte after escape opens an arrow sequence
OpensSequenceAny(second) == TRUE

\* if next_char == '['
OpensSequence(second) == second = "["

\* next_char = sys.stdin.read(1) after an escape byte, for a byte of the set
\* `bytes`: if next_char == '[' the third byte is read, else: break
ReadAfterEscapeIn(bytes) ==
    /\ pc = "esc"
    /\ \E second \in bytes :
         /\ next_char' = second
         /\ IF OpensSequence(second)
            THEN /\ pc' = "csi"
                 /\ UNCHANGED << termVars, exit_kind >>
            ELSE LeaveTry("quit")
    /\ UNCHANGED << paramVars, databases, cursorVars, confirm, execVars, poolVars, char,
                    arrow, typed_line, choice >>

\* one of the bytes of EscapeBytes follows the escape byte
ReadAfterEscape == ReadAfterEscapeIn(EscapeBytes)

\* mutant of ReadArrowIn: a space as third byte is handled as the space key
ReadArrowInRunsCommand(bytes) ==
    /\ pc = "csi"
    /\ \E third \in bytes :
         /\ arrow' = third
         /\ MoveCursor(ArrowCursor(third, current_index, current_page))
         /\ IF third = "SP"
            THEN databases' = ToggleSelected(databases, current_index)
            ELSE UNCHANGED databases
    /\ pc' = "display"
    /\ UNCHANGED << paramVars, termVars, confirm, execVars, poolVars, exit_kind,
                    char, next_char, typed_line, choice >>

\* arrow = sys.stdin.read(1) after escape and '[', for a byte of the set
\* `bytes`, and the branch on it
ReadArrowIn(bytes) ==
    /\ pc = "csi"
    /\ \E third \in bytes :
         /\ arrow' = third
         /\ MoveCursor(ArrowCursor(third, current_index, current_page))
    /\ pc' = "display"
    /\ UNCHANGED << paramVars, databases, termVars, confirm, execVars, poolVars, exit_kind,
                    char, next_char, typed_line, choice >>

\* one of the bytes of ArrowBytes follows escape and '['
ReadArrow == ReadArrowIn(ArrowBytes)

\* mutant of DeclineTerm: raw mode is not entered again after a decline
DeclineTermKept == term

\* the terminal after a declined prompt: tty.setraw(sys.stdin.fileno())
DeclineTerm == "raw"

\* confirm = input("Type 'DELETE' to confirm deletion: ").strip() and the
\* branch on it.  On a decline the locals selected_dbs and confirm are dead
\* (both are assigned again before they are next read); the model clears them.
ConfirmPrompt ==
    /\ pc = "confirm"
    /\ \/ \E line \in TypedLines :
            /\ typed_line' = line
            /\ IF ConfirmsDelete(Strip(line))
               THEN /\ confirm' = Strip(line)
                    /\ pc' = "exec"
                    /\ StartLoop(selected_dbs)
                    /\ UNCHANGED << termVars, exit_kind >>
               ELSE /\ confirm' = << >>
                    /\ selected_dbs' = << >>
                    /\ term' = DeclineTerm
                    /\ pc' = "display"
                    /\ UNCHANGED << old_settings, raw_acquired, exit_kind, exec_pos,
                                    all_successful, success_count, failure_count,
                                    failed_databases, destroy_log, printed >>
       \/ \E e \in InputErrors :
            /\ LeaveTry(e)
            /\ UNCHANGED << confirm, execVars, typed_line >>
    /\ char' = "none"
    /\ UNCHANGED << paramVars, databases, cursorVars, poolVars, next_char, arrow, choice >>

\* for db in selected_dbs: delete_database(db['name']) ...
ExecDestroy ==
    /\ pc = "exec"
    /\ DestroyStep(TRUE)

\* the loop is over: the report is printed and "Press Enter to exit..." shown
ExecReport ==
    /\ pc = "exec"
    /\ exec_pos > Len(selected_dbs)
    /\ pc' = "exit_prompt"
    /\ typed_line' = NoLine
    /\ UNCHANGED << paramVars, databases, cursorVars, termVars, confirm, execVars,
                    poolVars, exit_kind, char, next_char, arrow, choice >>

\* mutant of ExitPrompt: the break is missing, the loop goes on
ExitPromptNoBreak ==
    /\ pc = "exit_prompt"
    /\ \/ pc' = "display" /\ UNCHANGED << termVars, exit_kind >>
       \/ \E e \in InputErrors : LeaveTry(e)
    /\ UNCHANGED << paramVars, databases, cursorVars, confirm, execVars, poolVars, keyVars >>

\* input("Press Enter to exit...") and break
ExitPrompt ==
    /\ pc = "exit_prompt"
    /\ \/ LeaveTry("done")
       \/ \E e \in InputErrors : LeaveTry(e)
    /\ UNCHANGED << paramVars, databases, cursorVars, confirm, execVars, poolVars, keyVars >>

-----------------------------------------------------------------------------

Next ==
    \/ BeginLazy
    \/ BeginEmpty
    \/ Menu
    \/ BulkConfirm
    \/ BulkDestroy
    \/ BulkReport
    \/ BulkExitPrompt
    \/ Display
    \/ WorkerStart
    \/ WorkerFinish
    \/ HydrationInterrupt
    \/ BatchJoin
    \/ ReadKey
    \/ ReadAfterEscape
    \/ ReadArrow
    \/ ConfirmPrompt
    \/ ExecDestroy
    \/ ExecReport
    \/ ExitPrompt

Spec == Init /\ [][Next]_vars

\* The hydration service alone: interactive_deletion driven by navigation
\* keys only, so that every call of load_database_details_batch (the first
\* batch and each rendered page, in every state of the details) happens
\* without the selection and deletion states.
HydrationInit == Init /\ fn = "lazy"

HydrationNext ==
    \/ BeginLazy
    \/ Display
    \/ WorkerStart
    \/ WorkerFinish
    \/ HydrationInterrupt
    \/ BatchJoin
    \/ ReadNavKey

\* The pool's threads are scheduled by the operating system and every
\* run_command call ends (subprocess.run is given a timeout): a worker that
\* can take a work item does, and a started fetch ends.
HydrationSpec ==
    HydrationInit /\ [][HydrationNext]_vars /\ WF_vars(WorkerStart) /\ WF_vars(WorkerFinish)

\* The selector loop alone, over longer lists: the selector over empty
\* databases entered directly (auto_confirm without delete_all) and driven by
\* the cursor keys, the arrow sequences and keys it does not know.
BrowseInit == InitUpTo(MaxBrowseN) /\ fn = "empty" /\ auto_confirm /\ ~delete_all

\* the cursor keys, escape and an unknown key
BrowseChars == { "j", "J", "k", "K", "n", "N", "p", "P", "ESC", "x" }

\* a key that moves the cursor or does nothing is read
ReadBrowseKey == ReadKeyIn(BrowseChars)

BrowseNext ==
    \/ BeginEmpty
    \/ Display
    \/ ReadBrowseKey
    \/ ReadAfterEscape
    \/ ReadArrow

BrowseSpec == BrowseInit /\ [][BrowseNext]_vars

\* The decoder alone, over every byte: both selectors up to the confirmation
\* prompt, the selector over empty databases entered directly, driven by
\* escape, the selection keys, Enter and a cursor key, with any byte of
\* Chars after an escape and after escape and '['.
DecoderInit == Init /\ (fn = "empty" => (auto_confirm /\ ~delete_all))

\* escape, the keys that select, Enter and a cursor key
DecoderChars == { "ESC", "SP", "a", "d", "CR", "j" }

\* a key of DecoderChars is read as the first byte of an iteration
ReadDecoderKey == ReadKeyIn(DecoderChars)

\* any byte follows the escape byte
ReadAnyAfterEscape == ReadAfterEscapeIn(Chars)

\* any byte follows escape and '['
ReadAnyArrow == ReadArrowIn(Chars)

DecoderNext ==
    \/ BeginLazy
    \/ BeginEmpty
    \/ Display
    \/ WorkerStart
    \/ WorkerFinish
    \/ BatchJoin
    \/ ReadDecoderKey
    \/ ReadAnyAfterEscape
    \/ ReadAnyArrow

DecoderSpec == DecoderInit /\ [][DecoderNext]_vars

\* Both selectors from the selection to the end of the deletion loop: the
\* keys that select, two keys that reach the other pages, Enter, the
\* confirmation prompt and the deletion loop.
SelectionChars == { "SP", "a", "d", "n", "j", "CR" }

\* a key of SelectionChars is read as the first byte of an iteration
ReadSelectionKey == ReadKeyIn(SelectionChars)

SelectionNext ==
    \/ BeginLazy
    \/ BeginEmpty
    \/ Display
    \/ WorkerStart
    \/ WorkerFinish
    \/ BatchJoin
    \/ ReadSelectionKey
    \/ ConfirmPrompt
    \/ ExecDestroy
    \/ ExecReport
    \/ ExitPrompt

SelectionSpec == DecoderInit /\ [][SelectionNext]_vars

\* Both selector loops on the keys that move the cursor and select, up to the
\* confirmation prompt and the end of the loop.
LoopChars ==
    { "j", "J", "k", "K", "n", "N", "p", "P", "SP", "a", "A", "d", "D", "CR", "ESC",
      "q", "ETX", "x" }

\* a key of LoopChars is read as the first byte of an iteration
ReadLoopKey == ReadKeyIn(LoopChars)

LoopNext ==
    \/ BeginLazy
    \/ BeginEmpty
    \/ Display
    \/ WorkerStart
    \/ WorkerFinish
    \/ BatchJoin
    \/ ReadLoopKey
    \/ ReadAfterEscape
    \/ ReadArrow

LoopSpec == DecoderInit /\ [][LoopNext]_vars

-----------------------------------------------------------------------------
(* Properties. *)

\* the run is inside (or has left) one of the two selector loops
InSelector == raw_acquired

\* delete_database was called in this step
DestroyCalled == destroy_log' # destroy_log

\* C1: in both selectors delete_database is called only in the deletion loop
\* (pc = "exec"), that loop is entered only from the confirmation prompt by a
\* typed line equal to 'DELETE', and a run in which the token was never typed
\* has made no delete_database call.
C1_DestroyOnlyAfterToken ==
    /\ [](InSelector /\ destroy_log # << >>
             => confirm = DeleteToken /\ pc \in { "exec", "exit_prompt", "returned" })
    /\ [][ (InSelector /\ DestroyCalled) => (pc = "exec" /\ confirm = DeleteToken) ]_vars
    /\ [][ (pc' = "exec" /\ pc # "exec") => (pc = "confirm" /\ confirm' = DeleteToken) ]_vars

\* C1 witness: a selector run that typed the token and deleted a database
C1_Witness ==
    /\ InSelector
    /\ pc = "exit_prompt"
    /\ destroy_log # << >>

\* C2: after any sequence of keys, current_page = current_index div page_size,
\* 0 <= current_index <= n - 1 and 0 <= current_page < total_pages, where
\* total_pages is ceil(n / page_size).
C2_PaginationInvariant ==
    InSelector =>
        /\ current_page = current_index \div page_size
        /\ 0 <= current_index /\ current_index <= n - 1
        /\ 0 <= current_page /\ current_page < total_pages
        /\ total_pages * page_size >= n
        /\ (total_pages - 1) * page_size < n

\* C2 witness: the cursor has been moved onto the last of several pages, a
\* page shorter than page_size
C2_Witness ==
    /\ InSelector
    /\ pc = "read"
    /\ page_size > 1
    /\ current_page > 0
    /\ current_page = total_pages - 1
    /\ n < total_pages * page_size

\* C3: whenever a selector has ended after raw mode was acquired, by a return
\* or by a propagating exception, the terminal has the attributes saved at the
\* start of the session.
C3_TerminalRestored ==
    (pc = "returned" /\ InSelector) => (term = "orig" /\ old_settings = "orig")

\* C3 witness: the session was ended by an exception of delete_database
C3_Witness ==
    /\ pc = "returned"
    /\ InSelector
    /\ exit_kind = "TimeoutExpired"

\* the names of the delete_database calls made so far, in call order
DestroyedNames == [ k \in 1 .. Len(destroy_log) |-> destroy_log[k].db ]

\* the names among those calls that ended with result r, in call order
RECURSIVE NamesWith(_, _)
NamesWith(log, r) ==
    IF log = << >> THEN << >>
    ELSE (IF Head(log).res = r THEN << Head(log).db >> ELSE << >>) \o NamesWith(Tail(log), r)

\* the item is counted as failed by the deletion loop that called delete_database
CountedFailed(i) ==
    IF fn = "lazy" THEN ~all_successful ELSE i \in SeqToSet(failed_databases)

\* C4 (as claimed): an error raised by one delete_database call of the
\* deletion loop (run_command's timeout) is caught and recorded as that
\* item's failure, and the loop goes on with the remaining selected items:
\* the error never ends the session.
C4_RaisedDestroyDoesNotAbort ==
    InSelector =>
        \A k \in 1 .. Len(destroy_log) :
            destroy_log[k].res = "TimeoutExpired" =>
                /\ exit_kind # "TimeoutExpired"
                /\ CountedFailed(destroy_log[k].db)

\* C5: when the deletion loop of a selector is done (the report is printed),
\* delete_database was called exactly once for every item selected when Enter
\* was pressed, in list order, each call ended as a success or as a failure,
\* and the bookkeeping agrees: success_count + failure_count is the number of
\* selected items and failed_databases are exactly the names whose call
\* returned False (interactive_deletion: all_successful iff none did).
C5_AllSelectedAccounted ==
    pc = "exit_prompt" =>
        /\ selected_dbs = SelectedList(databases)
        /\ DestroyedNames = selected_dbs
        /\ \A k \in 1 .. Len(destroy_log) : destroy_log[k].res \in { "ok", "failed" }
        /\ Len(NamesWith(destroy_log, "ok")) + Len(NamesWith(destroy_log, "failed"))
               = Len(selected_dbs)
        /\ (fn = "empty") =>
               /\ success_count + failure_count = Len(selected_dbs)
               /\ success_count = Len(NamesWith(destroy_log, "ok"))
               /\ failed_databases = NamesWith(destroy_log, "failed")
        /\ (fn = "lazy") => (all_successful <=> NamesWith(destroy_log, "failed") = << >>)

\* C5 witness: three items were selected and exactly one deletion failed
C5_Witness ==
    /\ pc = "exit_prompt"
    /\ fn = "empty"
    /\ Len(selected_dbs) = 3
    /\ success_count = 2
    /\ failure_count = 1

\* C6 (as claimed): "turso db show" is issued at most once per item in a
\* session: a worker starts a fetch only for an item never fetched before.
C6_FetchAtMostOnce ==
    [][ \A i \in 0 .. (MaxN - 1) : (i \in issued' /\ i \notin issued) => i \notin fetched ]_vars

\* C7 (as claimed): when load_database_details_batch has returned to
\* display_page, every item of the rendered page has details_loaded set,
\* whatever the outcome of each fetch.
C7_LoadedOnReturn ==
    (fn = "lazy" /\ pc = "read") =>
        \A i \in Indices :
            (PageStart(current_page) <= i /\ i < PageEnd(current_page))
                => databases[i].details_loaded

\* C8 (as claimed): a fetch that ends, in whatever way, leaves its item
\* loaded with a real or a placeholder size, never still "Loading...".
C8_FetchFailureSetsError ==
    [][ \A i \in 0 .. (MaxN - 1) :
            (i \in running /\ i \notin running')
                => (databases'[i].details_loaded /\ databases'[i].size # "Loading...") ]_vars

\* C9: at every moment at most max_workers fetches are in flight, whatever
\* the number of unloaded items of the batch, and no submitted item is
\* dropped: an item leaves the queue only by having its fetch started, the
\* call returns only when the fetch of every submitted item was started and
\* has ended, and (under HydrationSpec) the fetch of every submitted item is
\* eventually started and ends.
C9_BoundedPool ==
    /\ [](/\ Cardinality(running) <= max_workers
          /\ running \subseteq issued
          /\ issued = futures \ SeqToSet(work_queue))
    /\ [][ (pc = "hydrating" /\ pc' # "hydrating") => (issued = futures /\ running = {}) ]_vars
    /\ \A i \in 0 .. (MaxN - 1) :
           (pc = "hydrating" /\ i \in futures) ~> (i \in issued /\ i \notin running)

\* C9 witness: the pool is saturated while a submitted item still waits
C9_Witness ==
    /\ pc = "hydrating"
    /\ Cardinality(running) = max_workers
    /\ work_queue # << >>

\* a pool worker took a step
WorkerStep == running' # running

FetchInFlight == running # {} \/ work_queue # << >>

\* C11: while a detail fetch is queued or running the main thread is inside
\* load_database_details_batch: it reads no key and changes neither the
\* cursor nor a selected flag; the loop goes on to read a key only after every
\* work item of the rendered page has ended, and a call submits its batch only
\* when no earlier batch has a work item left.
C11_NoInputWhileFetching ==
    /\ [](FetchInFlight => pc = "hydrating")
    /\ [][ FetchInFlight =>
             /\ char' = char /\ arrow' = arrow /\ confirm' = confirm
             /\ current_index' = current_index /\ current_page' = current_page
             /\ \A i \in Indices : databases'[i].selected = databases[i].selected ]_vars
    /\ [][ (pc = "hydrating" /\ pc' # "hydrating") => ~FetchInFlight ]_vars
    /\ [][ (futures' # futures /\ futures' # {}) => (futures = {} /\ ~FetchInFlight) ]_vars

\* C11 witness: a fetch of the rendered page is running after the operator
\* selected an item and moved the cursor to another page
C11_Witness ==
    /\ pc = "hydrating"
    /\ hydr_ret = "display"
    /\ running # {}
    /\ current_page > 0
    /\ \E i \in Indices : databases[i].selected

\* the Enter key as sys.stdin.read(1) returns it
EnterKeys == { "CR", "LF" }

\* no item of the list is selected
NothingSelected == \A i \in Indices : ~databases[i].selected

\* C12: Enter read by a selector loop while no item is selected does
\* nothing: the loop goes on to its next iteration, the terminal was and
\* stays in raw mode, the confirmation prompt is not entered, no
\* delete_database call is made and current_index, current_page and every
\* selected flag are unchanged.
C12_EnterWithoutSelectionIsNoOp ==
    [][ (pc = "read" /\ char' \in EnterKeys /\ NothingSelected) =>
          /\ pc' = "display"
          /\ term = "raw" /\ term' = "raw"
          /\ destroy_log' = destroy_log
          /\ current_index' = current_index /\ current_page' = current_page
          /\ \A i \in Indices : databases'[i].selected = databases[i].selected ]_vars

\* C12 witness: Enter was just handled with nothing selected, the cursor
\* being on a later page
C12_Witness ==
    /\ pc = "display"
    /\ char \in EnterKeys
    /\ NothingSelected
    /\ term = "raw"
    /\ current_page > 0

\* a line was read at the selector's confirmation prompt in this step
PromptAnswered == pc = "confirm" /\ typed_line' # NoLine

\* what C13 says of a step that declines the prompt
DeclineKeepsState ==
    /\ pc' = "display"
    /\ term' = "raw"
    /\ destroy_log' = << >>
    /\ current_index' = current_index /\ current_page' = current_page
    /\ \A i \in Indices : databases'[i].selected = databases[i].selected

\* C13 (as claimed): Enter with a selection opens the prompt without changing
\* the cursor or a selected flag, and every typed line other than 'DELETE'
\* brings the loop back to its next iteration in raw mode with the cursor and
\* every selected flag as they were and no delete_database call made.
C13_NonTokenLineKeepsState ==
    [][ /\ (pc = "read" /\ pc' = "confirm") =>
              (databases' = databases /\ current_index' = current_index
                   /\ current_page' = current_page)
        /\ (PromptAnswered /\ typed_line' # DeleteToken) => DeclineKeepsState ]_vars

\* C13 (amended): the same for every typed line that is not 'DELETE' once its
\* leading and trailing whitespace is removed.
C13_DeclinedLineKeepsState ==
    [][ /\ (pc = "read" /\ pc' = "confirm") =>
              (databases' = databases /\ current_index' = current_index
                   /\ current_page' = current_page)
        /\ (PromptAnswered /\ Strip(typed_line') # DeleteToken) => DeclineKeepsState ]_vars

\* C13 witness: a prompt was just declined, an item being selected and the
\* cursor on a later page
C13_Witness ==
    /\ pc = "display"
    /\ typed_line # NoLine
    /\ term = "raw"
    /\ current_page > 0
    /\ \E i \in Indices : databases[i].selected

\* C14 (as claimed): the deletion loop is entered from the prompt only by the
\* typed line 'DELETE' itself; every other line ('y', 'delete', the empty
\* line, the token with characters around it) goes back to the selector loop.
C14_ExecOnlyOnExactToken ==
    [][ PromptAnswered =>
          IF typed_line' = DeleteToken THEN pc' = "exec" ELSE pc' = "display" ]_vars

\* C14 (amended): the deletion loop is entered only from the prompt and only
\* by a typed line that is 'DELETE' once its leading and trailing whitespace
\* is removed; every other line goes back to the selector loop without a
\* delete_database call.
C14_ExecOnlyOnStrippedToken ==
    /\ [][ PromptAnswered =>
              IF Strip(typed_line') = DeleteToken
              THEN pc' = "exec"
              ELSE pc' = "display" /\ destroy_log' = destroy_log ]_vars
    /\ [][ (pc' = "exec" /\ pc # "exec") => PromptAnswered ]_vars

\* C14 witness: the deletion loop was entered by the token typed between
\* spaces
C14_Witness ==
    /\ pc = "exec"
    /\ typed_line # NoLine
    /\ typed_line # DeleteToken
    /\ Strip(typed_line) = DeleteToken

\* C15: the delete_database calls of a deletion loop are made one at a time
\* by the main thread, in the order of the list: a step makes at most one
\* call, none while a detail fetch is queued or running, the calls made so
\* far are the first selected items in increasing list position, and a call
\* is followed by another only if it returned its result.
C15_DestroySerialized ==
    /\ [](/\ DestroyedNames = SubSeq(selected_dbs, 1, Len(destroy_log))
          /\ \A a, b \in 1 .. Len(destroy_log) :
                a < b => /\ destroy_log[a].db < destroy_log[b].db
                         /\ destroy_log[a].res \in { "ok", "failed" })
    /\ [][ DestroyCalled =>
              /\ ~FetchInFlight
              /\ Len(destroy_log') = Len(destroy_log) + 1
              /\ SubSeq(destroy_log', 1, Len(destroy_log)) = destroy_log
              /\ destroy_log'[Len(destroy_log')].db = selected_dbs[exec_pos] ]_vars

\* C15 witness: the first and the last of three items were selected and the
\* loop has made its first call
C15_Witness ==
    /\ pc = "exec"
    /\ selected_dbs = << 0, 2 >>
    /\ Len(destroy_log) = 1

\* the keys that move the cursor
MoveKeys == { "j", "J", "k", "K", "n", "N", "p", "P" }

\* keys no branch of the if/elif chain handles
UnknownKeys == { "[", "B", "EOF", "x" }

\* every selected flag is the same after the step
SelectionUnchanged == \A i \in Indices : databases'[i].selected = databases[i].selected

\* C16: a step that handles a cursor key (j, k, n, p in either case, or an
\* arrow sequence), a key the loop does not know, or that belongs to
\* display_page and its call of load_database_details_batch (the submission,
\* every worker step, the join) leaves the selected flag of every item as it
\* was.
C16_SelectionPersists ==
    [][ (\/ pc = "read" /\ char' \in MoveKeys \cup UnknownKeys \cup { "ESC" }
         \/ pc \in { "esc", "csi", "display", "hydrating" }) => SelectionUnchanged ]_vars

\* C16 witness: with the first item selected the operator came back to the
\* first page by p, and the lazy selector has fetched an item of a later page
C16_Witness ==
    /\ fn = "lazy"
    /\ pc = "display"
    /\ char \in { "p", "P" }
    /\ current_page = 0
    /\ databases[0].selected
    /\ \E i \in Indices : i >= page_size /\ databases[i].details_loaded

\* C17: the space key negates the selected flag of the item at current_index
\* and changes nothing else (the other fields of that item, every other item,
\* current_index and current_page); toggling the same item twice gives back
\* the list as it was.
C17_ToggleFlipsCurrentOnly ==
    /\ [][ (pc = "read" /\ char' = "SP") =>
              /\ databases'[current_index].selected = ~databases[current_index].selected
              /\ databases' = [ databases EXCEPT
                                  ![current_index].selected = databases'[current_index].selected ]
              /\ current_index' = current_index /\ current_page' = current_page
              /\ pc' = "display" ]_vars
    /\ [](pc = "read" =>
             ToggleSelected(ToggleSelected(databases, current_index), current_index) = databases)

\* C17 witness: space has just deselected the item under the cursor while
\* another item stays selected
C17_Witness ==
    /\ pc = "display"
    /\ char = "SP"
    /\ current_index > 0
    /\ ~databases[current_index].selected
    /\ \E i \in Indices : databases[i].selected

\* the keys that select and deselect the items of the page
SelectAllKeys == { "a", "A" }
DeselectAllKeys == { "d", "D" }

\* item i is on page `page`: page * page_size <= i < min(n, (page + 1) * page_size)
OnPage(i, page) == page * page_size <= i /\ i < Min(n, (page + 1) * page_size)

\* C18: a (or A) sets the selected flag of every item of the current page to
\* true and d (or D) sets it to false, whatever it was; the items of the other
\* pages, the other fields of every item, current_index and current_page are
\* unchanged.
C18_PageSelectTouchesPageOnly ==
    [][ (pc = "read" /\ char' \in SelectAllKeys \cup DeselectAllKeys) =>
          /\ \A i \in Indices :
                databases'[i] =
                    IF OnPage(i, current_page)
                    THEN [ databases[i] EXCEPT !.selected = (char' \in SelectAllKeys) ]
                    ELSE databases[i]
          /\ current_index' = current_index /\ current_page' = current_page
          /\ pc' = "display" ]_vars

\* C18 witness: d has just deselected a page of several items while an item
\* of another page stays selected
C18_Witness ==
    /\ pc = "display"
    /\ char \in DeselectAllKeys
    /\ page_size > 1
    /\ \A i \in Indices : OnPage(i, current_page) => ~databases[i].selected
    /\ \E i \in Indices : ~OnPage(i, current_page) /\ databases[i].selected

\* the step handles MoveDown: j, J or the sequence escape [ B
MoveDownStep == (pc = "read" /\ char' \in { "j", "J" }) \/ (pc = "csi" /\ arrow' = "B")

\* the step handles MoveUp: k, K or the sequence escape [ A
MoveUpStep == (pc = "read" /\ char' \in { "k", "K" }) \/ (pc = "csi" /\ arrow' = "A")

\* the page an index lies on
PageOf(idx) == idx \div page_size

\* C19: MoveUp takes 1 from current_index when it is above 0 and does nothing
\* at 0; MoveDown adds 1 when it is below n - 1 and does nothing at n - 1;
\* current_page goes down (up) by one exactly when the new index lies on the
\* page before (after) the one of the old index, and is unchanged otherwise.
C19_MoveUpDown ==
    [][ /\ MoveUpStep =>
              /\ current_index' = IF current_index > 0 THEN current_index - 1 ELSE 0
              /\ current_page' = IF PageOf(current_index') < PageOf(current_index)
                                 THEN current_page - 1 ELSE current_page
        /\ MoveDownStep =>
              /\ current_index' = IF current_index < n - 1 THEN current_index + 1 ELSE n - 1
              /\ current_page' = IF PageOf(current_index') > PageOf(current_index)
                                 THEN current_page + 1 ELSE current_page ]_vars

\* C19 witness: MoveDown has just taken the cursor from the last item of the
\* second page to the first item of the third
C19_Witness ==
    /\ pc = "display"
    /\ char \in { "j", "J" }
    /\ page_size > 1
    /\ current_index = 2 * page_size
    /\ current_page = 2

\* the step handles NextPage (n, N) / PrevPage (p, P)
NextPageStep == pc = "read" /\ char' \in { "n", "N" }
PrevPageStep == pc = "read" /\ char' \in { "p", "P" }

\* C20: NextPage on a page before the last adds 1 to current_page and puts
\* current_index on the first index of the new page, and does nothing on the
\* last page; PrevPage on a page after the first takes 1 from current_page
\* and puts current_index on the first index of the new page, and does
\* nothing on page 0.
C20_NextPrevPage ==
    [][ /\ NextPageStep =>
              IF current_page < total_pages - 1
              THEN /\ current_page' = current_page + 1
                   /\ current_index' = (current_page + 1) * page_size
              ELSE current_page' = current_page /\ current_index' = current_index
        /\ PrevPageStep =>
              IF current_page > 0
              THEN /\ current_page' = current_page - 1
                   /\ current_index' = (current_page - 1) * page_size
              ELSE current_page' = current_page /\ current_index' = current_index ]_vars

\* C20 witness: PrevPage has just brought the cursor from the third page to
\* the first index of the second, a page of several items
C20_Witness ==
    /\ pc = "display"
    /\ char \in { "p", "P" }
    /\ page_size > 1
    /\ total_pages = 3
    /\ current_page = 1
    /\ current_index = page_size

-----------------------------------------------------------------------------
(* The escape-sequence decoder: the first byte of an iteration is read at   *)
(* pc = "read" (Idle), the byte after an escape at pc = "esc"               *)
(* (ExpectBracket), the byte after escape and '[' at pc = "csi"             *)
(* (ExpectArrow).                                                           *)

\* sys.stdin.read(1) has just returned the byte `b`, in any decoder state
ByteRead(b) ==
    \/ pc = "read" /\ char' = b
    \/ pc = "esc" /\ next_char' = b
    \/ pc = "csi" /\ arrow' = b

\* C21: in every decoder state the interrupt byte ends the session as
\* cancelled: the KeyboardInterrupt handler runs, the session is neither
\* quit silently nor does it go on.
C21_InterruptAlwaysCancels ==
    [][ ByteRead("ETX") => (pc' = "returned" /\ exit_kind' = "cancelled") ]_vars


\* cursor and selection are as before the step
BrowseStateUnchanged ==
    /\ current_index' = current_index
    /\ current_page' = current_page
    /\ SelectionUnchanged

\* C22: the decoder is a three-state machine.  Idle: an escape byte leads to
\* ExpectBracket and changes nothing.  ExpectBracket: '[' leads to
\* ExpectArrow, any other byte ends the session as Quit with no destroy call.
\* ExpectArrow: 'A' moves the cursor up, 'B' moves it down, any other byte
\* leaves index, page and selection unchanged.  After a byte of ExpectArrow,
\* and after any first byte that neither ends the session, opens the prompt
\* nor is an escape, the loop is at its top again, where the next byte is
\* read as a first byte.
C22_DecoderStateMachine ==
    [][ /\ (pc = "read" /\ char' = "ESC") => (pc' = "esc" /\ BrowseStateUnchanged)
        /\ (pc = "esc" /\ next_char' = "[") => (pc' = "csi" /\ BrowseStateUnchanged)
        /\ (pc = "esc" /\ next_char' \notin { "[", "none" }) =>
              /\ pc' = "returned" /\ exit_kind' = "quit"
              /\ destroy_log' = << >> /\ BrowseStateUnchanged
        /\ (pc = "csi" /\ arrow' = "A") =>
              /\ current_index' = IF current_index > 0 THEN current_index - 1 ELSE 0
              /\ current_page' = PageOf(current_index')
        /\ (pc = "csi" /\ arrow' = "B") =>
              /\ current_index' = IF current_index < n - 1 THEN current_index + 1 ELSE n - 1
              /\ current_page' = PageOf(current_index')
        /\ (pc = "csi" /\ arrow' \notin { "A", "B", "none" }) => BrowseStateUnchanged
        /\ (pc = "csi" /\ arrow' # "none") => (pc' = "display" /\ SelectionUnchanged)
        /\ (pc = "read" /\ pc' \notin { "read", "returned", "esc", "confirm" })
              => pc' = "display" ]_vars

\* C22 witness: with an item selected and the cursor off the first item, a
\* full sequence escape, '[', 'C' was decoded as a no-op, and the session
\* goes on
C22_Witness ==
    /\ pc = "display"
    /\ char = "ESC"
    /\ next_char = "["
    /\ arrow = "C"
    /\ current_index > 0
    /\ \E i \in Indices : databases[i].selected


\* The browse runs with the scheduling of the code: the steps of the main
\* thread that wait for nothing (the entry of the function, display_page) are
\* taken when they are enabled.  sys.stdin.read(1) is a blocking read with no
\* timeout: it returns when the operator sends a byte, which nothing
\* guarantees, so the reading steps carry no fairness.
BrowseFairSpec ==
    /\ BrowseInit
    /\ [][BrowseNext]_vars
    /\ WF_vars(BeginEmpty)
    /\ WF_vars(Display)

\* C23: after an escape byte the decoder does not stay in ExpectBracket for
\* ever: the session leaves that state even when no further byte arrives.
C23_EscapeAloneDoesNotBlock == (pc = "esc") ~> (pc # "esc")


-----------------------------------------------------------------------------
(* The session as a whole. *)

FetchStarted == fetched' \ fetched

\* every item of the page is hydrated
PageLoaded(page) ==
    \A i \in Indices : OnPage(i, page) => databases[i].details_loaded

\* C25: in the lazy selector a detail fetch is started for an item only when
\* the item lies on the active page or on the one after it, and rendering a
\* page whose items are all hydrated submits nothing.
C25_FetchOnlyForActivePage ==
    /\ [][ (fn = "lazy") =>
             \A i \in FetchStarted : PageOf(i) \in { current_page, current_page + 1 } ]_vars
    /\ [][ (fn = "lazy" /\ pc = "display" /\ PageLoaded(current_page)) =>
             (pc' # "hydrating" /\ work_queue' = << >> /\ fetched' = fetched) ]_vars


\* the deletion loop of the selector has handled every selected item
ExecutionDone ==
    /\ InSelector
    /\ \/ pc = "exec" /\ exec_pos > Len(selected_dbs)
       \/ pc = "exit_prompt"
       \/ pc = "returned" /\ exit_kind = "done"

\* C26: once the deletion loop has handled every selected item, whatever the
\* outcomes, the session only reports, waits for Enter and returns: it shows
\* no page, reads no key, opens no confirmation prompt, starts no further
\* deletion, and a session that returned stays returned.
C26_DoneIsFinal ==
    [][ ExecutionDone =>
          /\ pc' \in { "exec", "exit_prompt", "returned" }
          /\ (pc = "exit_prompt") => (pc' \in { "exit_prompt", "returned" })
          /\ (pc = "returned") => (pc' = "returned")
          /\ char' = char /\ next_char' = next_char /\ arrow' = arrow
          /\ typed_line' = NoLine /\ confirm' = confirm
          /\ destroy_log' = destroy_log /\ selected_dbs' = selected_dbs
          /\ term' = "orig" ]_vars

\* C26 witness: a session has ended after a deletion loop in which one item
\* was destroyed and another failed
C26_Witness ==
    /\ InSelector
    /\ pc = "returned"
    /\ exit_kind = "done"
    /\ \E k \in 1 .. Len(destroy_log) : destroy_log[k].res = "ok"
    /\ \E k \in 1 .. Len(destroy_log) : destroy_log[k].res = "failed"


\* a delete_database call that returned
CallReturned(entry) == entry.res \in { "ok", "failed" }

\* the calls of the deletion loop that returned, in order
ReturnedCalls == SelectSeq(destroy_log, CallReturned)

\* the session was cancelled by an interrupt after the deletion loop made
\* its first delete_database call
CancelledAfterExecStarted ==
    /\ InSelector
    /\ pc = "returned"
    /\ exit_kind = "cancelled"
    /\ destroy_log # << >>

C28_DirectoryShapeFixed ==
    /\ [](/\ DOMAIN databases = Indices
          /\ \A i \in Indices : databases[i].name = i)
    /\ [][ /\ n' = n
           /\ DOMAIN databases' = DOMAIN databases
           /\ \A i \in Indices : databases'[i].name = databases[i].name ]_vars

\* C28 witness: a session of the lazy selector has ended after details were
\* fetched, the cursor was moved, an item other than the first was selected
\* and destroyed, and another deletion failed
C28_Witness ==
    /\ fn = "lazy"
    /\ pc = "returned"
    /\ exit_kind = "done"
    /\ fetched # {}
    /\ current_index > 0
    /\ \E i \in Indices : i > 0 /\ databases[i].selected /\ databases[i].details_loaded
    /\ \E k \in 1 .. Len(destroy_log) : destroy_log[k].res = "ok" /\ destroy_log[k].db > 0
    /\ \E k \in 1 .. Len(destroy_log) : destroy_log[k].res = "failed"


\* the function is waiting at a confirmation prompt for a typed token
AtConfirmationPrompt == pc \in { "confirm", "bulk_confirm" }

\* C29: with auto_confirm set no confirmation prompt is shown, whether or
\* not delete_all is set.
C29_AutoConfirmSkipsPrompts == auto_confirm => ~AtConfirmationPrompt


\* the positions of the selector loop outside the Enter branch: display_page
\* with its hydration, and the reads of the decoder
Browsing == pc \in { "display", "hydrating", "read", "esc", "csi" }

\* C30: in a session of either selector the terminal is raw exactly while the
\* loop browses, and has its original attributes at the confirmation prompt,
\* during the deletion loop, at the exit prompt and after the return.  Raw
\* mode is entered once when the session starts; the only step that enters it
\* again is the one that declines a confirmation.
C30_RawExactlyWhileBrowsing ==
    /\ [](InSelector => ((term = "raw") <=> Browsing))
    /\ [](InSelector /\ pc \in { "confirm", "exec", "exit_prompt", "returned" }
             => term = "orig")
    /\ [][ (InSelector /\ term # "raw" /\ term' = "raw") =>
             /\ pc = "confirm" /\ pc' = "display"
             /\ typed_line' # NoLine /\ ~ConfirmsDelete(Strip(typed_line')) ]_vars
    /\ [][ (~InSelector /\ term' = "raw") => (pc' = "display" /\ raw_acquired') ]_vars

\* C30 witness: in the lazy selector, with the cursor off the first item, a
\* confirmation prompt was just declined and the terminal is raw again
C30_Witness ==
    /\ fn = "lazy"
    /\ pc = "display"
    /\ typed_line # NoLine
    /\ term = "raw"
    /\ current_index > 0
    /\ \E i \in Indices : databases[i].selected


-----------------------------------------------------------------------------
(* The menu of the empty-database flow. *)

\* a line was typed at the 'DELETE ALL' prompt in this step
BulkAnswered == pc = "bulk_confirm" /\ typed_line' # NoLine

\* the function returns normally in this step without a delete_database
\* call and without having entered the selector
ReturnsUntouched ==
    /\ pc' = "returned"
    /\ exit_kind' = "returned"
    /\ destroy_log' = << >>
    /\ ~raw_acquired'

\* the menu was answered, and how each answer is handled
MenuHandled ==
    /\ (pc = "menu" /\ choice' = "1") => (pc' = "bulk_confirm" /\ destroy_log' = << >>)
    /\ (pc = "menu" /\ choice' = "3") => ReturnsUntouched
    /\ (pc = "menu" /\ choice' \in { "2", "other" }) =>
          /\ pc' = "display" /\ raw_acquired'
          /\ destroy_log' = << >> /\ selected_dbs' = << >>

\* C31 (as claimed): in the flow with the menu, 'Delete ALL' calls
\* delete_database only if the typed line is 'DELETE ALL' itself; any other
\* line, and option 3, return with no call and without the selector; an
\* unknown choice leads to the selector.
C31_BulkOnlyOnExactToken ==
    /\ [][ BulkAnswered =>
             IF typed_line' = DeleteAllToken THEN pc' = "bulk_exec" ELSE ReturnsUntouched ]_vars
    /\ [][ MenuHandled ]_vars

\* C31 (amended): in the flow with the menu, 'Delete ALL' calls
\* delete_database only if the typed line is 'DELETE ALL' once its leading
\* and trailing whitespace is removed; any other line, and option 3, return
\* with no call and without the selector; an unknown choice leads to the
\* selector, not to the bulk deletion; every delete_database call made
\* outside the selector follows such a line.
C31_BulkOnlyOnStrippedToken ==
    /\ [][ BulkAnswered =>
             IF Strip(typed_line') = DeleteAllToken
             THEN pc' = "bulk_exec" /\ destroy_log' = << >>
             ELSE ReturnsUntouched ]_vars
    /\ [][ MenuHandled ]_vars
    /\ [][ (~auto_confirm /\ pc' = "bulk_exec" /\ pc # "bulk_exec") => BulkAnswered ]_vars
    /\ [](fn = "empty" /\ ~auto_confirm /\ ~InSelector /\ destroy_log # << >>
             => confirm = DeleteAllToken /\ choice = "1")

\* C31 witness: after choice 1 the bulk deletion was started by the token
\* typed after a space
C31_Witness ==
    /\ pc = "bulk_exec"
    /\ choice = "1"
    /\ typed_line # NoLine
    /\ typed_line # DeleteAllToken
    /\ Strip(typed_line) = DeleteAllToken


-----------------------------------------------------------------------------
(* What the deletion loop of the selector works on. *)

\* the items whose selected flag is set, over the whole list
SelectedItems == { i \in Indices : databases[i].selected }

\* C32: the deletion loop of the selector works on exactly the items whose
\* selected flag is set when Enter is pressed, over the whole list: the list
\* built by Enter holds all of them, whatever their page and whether or not
\* their details are loaded, and nothing else, also when an earlier prompt
\* was declined; the flags do not change afterwards; every delete_database
\* call is for one of them, and a loop that ran to its end has called it for
\* each of them once.
C32_ExecutesExactlySelection ==
    /\ [][ /\ (pc = "read" /\ char' \in EnterKeys) =>
                /\ SeqToSet(selected_dbs') = SelectedItems
                /\ Len(selected_dbs') = Cardinality(SelectedItems)
                /\ SelectionUnchanged
           /\ (InSelector /\ pc \in { "confirm", "exec", "exit_prompt" }) =>
                SelectionUnchanged ]_vars
    /\ [](InSelector =>
            /\ pc \in { "confirm", "exec", "exit_prompt" }
                 => SeqToSet(selected_dbs) = SelectedItems
            /\ destroy_log # << >>
                 => SeqToSet(DestroyedNames) \subseteq SelectedItems
            /\ pc = "exit_prompt"
                 => /\ SeqToSet(DestroyedNames) = SelectedItems
                    /\ Len(destroy_log) = Cardinality(SelectedItems))

\* C32 witness: the lazy selector has run its deletion loop to the end for
\* two selected items, one of them on another page than the cursor's and
\* with no details loaded, and has left an unselected item alone
C32_Witness ==
    /\ fn = "lazy"
    /\ pc = "exit_prompt"
    /\ Len(destroy_log) = 2
    /\ \E i \in SelectedItems : PageOf(i) # current_page /\ ~databases[i].details_loaded
    /\ \E i \in Indices : ~databases[i].selected


-----------------------------------------------------------------------------
(* Keys without a branch, and the ways a session ends. *)

\* a key no branch handles, read as the first byte of an iteration, changes
\* nothing and the loop goes on
UnknownKeyIsNoOp ==
    (pc = "read" /\ char' \in UnknownKeys) =>
        /\ pc' = "display"
        /\ BrowseStateUnchanged
        /\ term' = "raw"
        /\ exit_kind' = "running"
        /\ destroy_log' = destroy_log

\* the session of a selector ends in this step
SessionEnds == InSelector /\ pc # "returned" /\ pc' = "returned"

\* the session ends by q or Q, by the byte read after an escape, by an
\* interrupt, or from a deletion loop that was confirmed
EndsByListedWay ==
    \/ pc = "read" /\ char' \in { "q", "Q" }
    \/ pc = "esc"
    \/ exit_kind' = "cancelled"
    \/ pc \in { "exec", "exit_prompt" }

\* C33: a first byte that is no command key, the empty read at end of input
\* included, leaves cursor, page, selection and the session as they are, and
\* the loop goes on; a session ends only by q/Q, a bare escape, the
\* interrupt, or a confirmed execution.
C33_UnknownKeysKeepSessionGoing ==
    [][ UnknownKeyIsNoOp /\ (SessionEnds => EndsByListedWay) ]_vars


-----------------------------------------------------------------------------
(* The bytes of an escape sequence are not commands. *)

\* C34: the byte read after an escape byte is never handled as a key of its
\* own.  Whatever it is besides '[' (space, a, d, Enter, q, ...), the session
\* ends as Quit with cursor and selection unchanged, no list of selected
\* items built, no prompt and no delete_database call; and the byte read
\* after escape and '[', whatever it is, changes no selected flag, builds no
\* list, opens no prompt and makes no call: the loop goes on in raw mode.
C34_EscapeBytesAreNotCommands ==
    [][ /\ (pc \in { "esc", "csi" }) => (char' = char /\ char = "ESC")
        /\ (pc = "esc" /\ next_char' \notin { "[", "none" }) =>
              /\ pc' = "returned" /\ exit_kind' = "quit"
              /\ BrowseStateUnchanged
              /\ selected_dbs' = selected_dbs /\ confirm' = confirm
              /\ destroy_log' = << >>
        /\ (pc = "csi" /\ arrow' # "none") =>
              /\ pc' = "display" /\ term' = "raw" /\ exit_kind' = "running"
              /\ SelectionUnchanged
              /\ selected_dbs' = selected_dbs /\ confirm' = confirm
              /\ destroy_log' = << >> ]_vars

\* C34 witness: with the cursor on an unselected item and another item
\* selected, Enter came after an escape byte and the session ended as Quit
C34_Witness ==
    /\ pc = "returned"
    /\ exit_kind = "quit"
    /\ char = "ESC"
    /\ next_char = "CR"
    /\ ~databases[current_index].selected
    /\ \E i \in Indices : databases[i].selected


-----------------------------------------------------------------------------
(* The two selector loops compared. *)

\* the selected flag of item i after the first byte `key`, in either loop
SelectedAfter(key, i) ==
    IF key = "SP" /\ i = current_index THEN ~databases[i].selected
    ELSE IF key \in SelectAllKeys /\ OnPage(i, current_page) THEN TRUE
    ELSE IF key \in DeselectAllKeys /\ OnPage(i, current_page) THEN FALSE
    ELSE databases[i].selected

\* where the loop is after the first byte `key`, in either loop
PositionAfter(key) ==
    IF key = "ESC" THEN "esc"
    ELSE IF key \in EnterKeys /\ ~NothingSelected THEN "confirm"
    ELSE IF key \in { "q", "Q", "ETX" } THEN "returned"
    ELSE "display"

\* C35: the two loops are the same function of the keys.  Wherever either
\* loop waits for a byte, the guarded elif chain of interactive_deletion and
\* the nested tests of delete_empty_databases_interactive give the same
\* cursor for every cursor key and for every third byte of an escape
\* sequence; and every step of either loop that handles a byte leaves the
\* cursor both give, the selected flags and the position that depend on the
\* byte and the state before only, not on the function.
C35_LoopsEquivalent ==
    /\ [](pc = "read" =>
            \A key \in MoveKeys :
              CursorLazy(key, current_index, current_page)
                = CursorEmpty(key, current_index, current_page))
    /\ [](pc = "csi" =>
            \A third \in ArrowBytes :
              ArrowCursorLazy(third, current_index, current_page)
                = ArrowCursorEmpty(third, current_index, current_page))
    /\ [][ (pc = "read" /\ char' # "none") =>
             /\ << current_index', current_page' >>
                  = CursorLazy(char', current_index, current_page)
             /\ << current_index', current_page' >>
                  = CursorEmpty(char', current_index, current_page)
             /\ \A i \in Indices : databases'[i].selected = SelectedAfter(char', i)
             /\ pc' = PositionAfter(char') ]_vars
    /\ [][ (pc = "csi" /\ arrow' # "none") =>
             /\ << current_index', current_page' >>
                  = ArrowCursorLazy(arrow', current_index, current_page)
             /\ << current_index', current_page' >>
                  = ArrowCursorEmpty(arrow', current_index, current_page)
             /\ SelectionUnchanged
             /\ pc' = "display" ]_vars

\* C35 witness: in interactive_deletion, with an item selected, p was read on
\* the first page with the cursor below the first item: its bound failed, the
\* key went down the rest of the chain and nothing changed
C35_Witness ==
    /\ fn = "lazy"
    /\ pc = "display"
    /\ char \in { "p", "P" }
    /\ current_page = 0
    /\ current_index > 0
    /\ \E i \in Indices : databases[i].selected

=============================================================================
